---- MODULE Spec2Model ----
(***************************************************************************)
(* Student Management System API (src/main.py).                            *)
(*                                                                         *)
(* The service is a set of HTTP handlers over three tables of a remote     *)
(* store: students, courses and enrollments.  The tables are the state.    *)
(* Every handler is a short sequence of store calls (select / insert /     *)
(* update / delete with equality filters).                                 *)
(*                                                                         *)
(* Three specifications are given over the same tables:                    *)
(*   Spec      requests run one at a time, one action per handler;         *)
(*   SpecSteps requests run one at a time, one action per store call, so   *)
(*             that the states between two store calls are visible;        *)
(*   SpecConc  two create requests in flight, one action per store call.   *)
(*                                                                         *)
(* Grades are floats in the code.  Here a grade is an integer number of    *)
(* eighths (24 is 3.0, 25 is 3.125): such values, their sums, and the      *)
(* quotients that land on a rounding tie are exact binary floats, so the   *)
(* float arithmetic of calculate_gpa is the exact arithmetic below as long *)
(* as fewer than 25 rows are averaged.  A GPA is an integer number of      *)
(* hundredths (350 is 3.5).                                                *)
(***************************************************************************)
EXTENDS Integers, FiniteSets, Sequences, TLC

\* Bounds of the model.
MaxStudents == 2    \* student identities the store hands out: 1..MaxStudents
MaxCourses == 2     \* course identities the store hands out: 1..MaxCourses
MaxRows == 3        \* enrollment rows the store holds at once

\* None (Optional[...] = None): an absent query parameter, a null grade.
NULL == -1

Names == {"Ann"}
Emails == {"ann@x.org", "Ann@x.org"}
CourseNames == {"Math"}
Instructors == {"Kim"}
PrereqLists == {<<>>}
Grades == {25, 32}
\* The grades of the requests of SpecSteps and SpecConc.
StepGrades == {NULL, 32}

\* The ids of a delete or list request: 0 (falsy in Python, never assigned)
\* as well.
StudentIdArgs == 0 .. MaxStudents
CourseIdArgs == 0 .. MaxCourses

\* The ids the store can assign: such an id is absent before its row is
\* created and after it is deleted.
StudentIds == 1 .. MaxStudents
CourseIds == 1 .. MaxCourses

Procs == {1, 2}

VARIABLES
    students,       \* table "students": set of rows [id, name, email]
    courses,        \* table "courses": set of rows [id, name, instructor, prerequisites]
    enrollments,    \* table "enrollments": bag of rows [student_id, course_id, grade]
    nextStudentId,  \* the store's identity counter of table "students": ids
                    \* are assigned from 1 upwards and never reused
    nextCourseId,   \* the store's identity counter of table "courses"
    last,           \* Spec: the last request and its response
    reqs            \* SpecSteps, SpecConc: each request in flight

tables == <<students, courses, enrollments, nextStudentId, nextCourseId>>
vars == <<students, courses, enrollments, nextStudentId, nextCourseId, last, reqs>>

----------------------------------------------------------------------------
(* The store: tables and the query builder.                                *)

\* A bag of rows is a function from the distinct rows to their counts.
EmptyBag == [r \in {} |-> 0]

RECURSIVE SumOver(_, _)
\* Sum of f[r] over the rows r of S.
SumOver(f, S) ==
    IF S = {} THEN 0
    ELSE LET r == CHOOSE x \in S : TRUE
         IN f[r] + SumOver(f, S \ {r})

BagSize(B) == SumOver(B, DOMAIN B)

\* len(result.data) > 0
NonEmpty(B) == DOMAIN B # {}

\* .eq("student_id", v) on a query over enrollments.
EqStudentId(B, v) ==
    [r \in {x \in DOMAIN B : x.student_id = v} |-> B[r]]

\* .eq("course_id", v) on a query over enrollments.
EqCourseId(B, v) ==
    [r \in {x \in DOMAIN B : x.course_id = v} |-> B[r]]

\* .not_.is_("grade", None) on a query over enrollments.
NotNullGrade(B) ==
    [r \in {x \in DOMAIN B : x.grade # NULL} |-> B[r]]

\* table.insert(row): one more copy of the row.
BagInsert(B, row) ==
    [r \in DOMAIN B \cup {row} |->
        IF r \in DOMAIN B
        THEN (IF r = row THEN B[r] + 1 ELSE B[r])
        ELSE 1]

\* table.delete() with a filter: the rows of B that are not in Hit.
BagRemove(B, Hit) ==
    [r \in DOMAIN B \ DOMAIN Hit |-> B[r]]

\* table.update({"grade": g}) with a filter: the rows of Hit get grade g.
BagSetGrade(B, Hit, g) ==
    LET Upd(r) == IF r \in DOMAIN Hit THEN [r EXCEPT !.grade = g] ELSE r
        New == {Upd(r) : r \in DOMAIN B}
    IN [n \in New |-> SumOver(B, {r \in DOMAIN B : Upd(r) = n})]

\* The rows an update returns: the rows of Hit with grade g.
UpdatedRows(B, Hit, g) ==
    BagSetGrade(Hit, Hit, g)

StudentRow(id, name, email) ==
    [id |-> id, name |-> name, email |-> email]

CourseRow(id, name, instructor, prerequisites) ==
    [id |-> id, name |-> name, instructor |-> instructor,
     prerequisites |-> prerequisites]

EnrollmentRow(student_id, course_id, grade) ==
    [student_id |-> student_id, course_id |-> course_id, grade |-> grade]

NoData == <<>>

Response(req, status, detail, data) ==
    [req |-> req, status |-> status, detail |-> detail, data |-> data]

Message(text) == [message |-> text]

\* No request is being served.
NoResponse == Response([op |-> "none"], 0, "", NoData)

\* A worker that serves no request.
IdleReq == [req |-> [op |-> "none"], pc |-> "idle", found |-> FALSE, status |-> 0]

Init ==
    /\ students = {}
    /\ courses = {}
    /\ enrollments = EmptyBag
    /\ nextStudentId = 1
    /\ nextCourseId = 1
    /\ last = NoResponse
    /\ reqs = [p \in Procs |-> IdleReq]

----------------------------------------------------------------------------
(* The queries and decisions of the handlers.                              *)

\* A faulty duplicate check of create_student: the wrong column is compared.
create_student_existing_by_name(S, email) ==
    {s \in S : s.name = email}

\* create_student: select("*").eq("email", student.email)
create_student_existing(S, email) ==
    {s \in S : s.email = email}

\* create_enrollment: select("*").eq("id", enrollment.student_id) on students
create_enrollment_student(S, student_id) ==
    {s \in S : s.id = student_id}

\* create_enrollment: select("*").eq("id", enrollment.course_id) on courses
create_enrollment_course(C, course_id) ==
    {c \in C : c.id = course_id}

\* Faulty existence checks of create_enrollment: the course is checked first.
create_enrollment_not_found_course_first(studentFound, courseFound) ==
    IF ~courseFound THEN "Course not found"
    ELSE IF ~studentFound THEN "Student not found"
    ELSE ""

\* create_enrollment: the two existence checks, in the order of the code.
\* The detail of the 404 raised, "" when none is raised.
create_enrollment_not_found(studentFound, courseFound) ==
    IF ~studentFound THEN "Student not found"
    ELSE IF ~courseFound THEN "Course not found"
    ELSE ""

\* A faulty duplicate check of create_enrollment: the two ids are swapped.
create_enrollment_existing_swapped(B, student_id, course_id) ==
    EqCourseId(EqStudentId(B, course_id), student_id)

\* create_enrollment: select("*").eq("student_id", ..).eq("course_id", ..)
create_enrollment_existing(B, student_id, course_id) ==
    EqCourseId(EqStudentId(B, student_id), course_id)

\* Python truthiness of an Optional[int]: None and 0 are false.
Truthy(v) == v # NULL /\ v # 0

\* get_enrollments: the query built from the optional parameters.
get_enrollments_query(B, student_id, course_id) ==
    LET q1 == IF Truthy(student_id) THEN EqStudentId(B, student_id) ELSE B
        q2 == IF Truthy(course_id) THEN EqCourseId(q1, course_id) ELSE q1
    IN q2

\* A faulty filter of update_grade: the course is not compared.
update_grade_filter_student_only(B, student_id, course_id) ==
    EqStudentId(B, student_id)

\* update_grade: the filter of both the select and the update.
update_grade_filter(B, student_id, course_id) ==
    EqCourseId(EqStudentId(B, student_id), course_id)

\* delete_student: the filter of the enrollment delete.
delete_student_filter(B, student_id) ==
    EqStudentId(B, student_id)

\* delete_course: the filter of the enrollment delete.
delete_course_filter(B, course_id) ==
    EqCourseId(B, course_id)

\* A faulty filter of delete_enrollment: the course is not compared.
delete_enrollment_filter_student_only(B, student_id, course_id) ==
    EqStudentId(B, student_id)

\* delete_enrollment: the filter of the delete.
delete_enrollment_filter(B, student_id, course_id) ==
    EqCourseId(EqStudentId(B, student_id), course_id)

\* A faulty select of calculate_gpa: null grades are not excluded.
calculate_gpa_rows_with_null(B, student_id) ==
    EqStudentId(B, student_id)

\* calculate_gpa: select("*").eq("student_id", ..).not_.is_("grade", None)
calculate_gpa_rows(B, student_id) ==
    NotNullGrade(EqStudentId(B, student_id))

\* round(x, 2) of the float num/den (both positive integers, the quotient in
\* hundredths): to the nearest hundredth, an exact tie to the even one.
Round2(num, den) ==
    LET q == num \div den
        r == num % den
    IN IF 2 * r < den THEN q
       ELSE IF 2 * r > den THEN q + 1
       ELSE IF q % 2 = 0 THEN q ELSE q + 1

\* calculate_gpa: the response body computed from the selected rows.
\* Grades are eighths, so gpa in hundredths is 100 * total / (8 * count).
calculate_gpa_body(rows) ==
    IF ~NonEmpty(rows)
    THEN [gpa |-> 0, message |-> "No grades found"]
    ELSE LET total_points ==
                 SumOver([r \in DOMAIN rows |-> r.grade * rows[r]], DOMAIN rows)
             count == BagSize(rows)
         IN [gpa |-> Round2(25 * total_points, 2 * count), message |-> ""]

----------------------------------------------------------------------------
(* Spec: one action per handler, requests one at a time: a handler runs     *)
(* when no response is pending, and its response is then sent to the       *)
(* client.                                                                 *)

Ready == last = NoResponse

\* The response leaves the server; the next request can be served.
respond ==
    /\ last # NoResponse
    /\ last' = NoResponse
    /\ UNCHANGED <<tables, reqs>>

\* POST /students/
create_student(name, email) ==
    /\ Ready
    /\ LET req == [op |-> "create_student", name |-> name, email |-> email]
           existing == create_student_existing(students, email)
           row == StudentRow(nextStudentId, name, email)
       IN IF existing # {}
          THEN /\ last' = Response(req, 400, "Email already exists", NoData)
               /\ UNCHANGED <<tables, reqs>>
          ELSE /\ nextStudentId <= MaxStudents
               /\ students' = students \cup {row}
               /\ nextStudentId' = nextStudentId + 1
               /\ last' = Response(req, 200, "", row)
               /\ UNCHANGED <<courses, enrollments, nextCourseId, reqs>>

\* GET /students/
get_students ==
    /\ Ready
    /\ last' = Response([op |-> "get_students"], 200, "", students)
    /\ UNCHANGED <<tables, reqs>>

\* DELETE /students/{student_id}
delete_student(student_id) ==
    /\ Ready
    /\ LET req == [op |-> "delete_student", student_id |-> student_id] IN
       /\ enrollments' =
              BagRemove(enrollments, delete_student_filter(enrollments, student_id))
       /\ students' = {s \in students : s.id # student_id}
       /\ last' = Response(req, 200, "", Message("Student deleted"))
       /\ UNCHANGED <<courses, nextStudentId, nextCourseId, reqs>>

\* POST /courses/
create_course(name, instructor, prerequisites) ==
    /\ Ready
    /\ LET req == [op |-> "create_course", name |-> name,
                   instructor |-> instructor, prerequisites |-> prerequisites]
           row == CourseRow(nextCourseId, name, instructor, prerequisites)
       IN /\ nextCourseId <= MaxCourses
          /\ courses' = courses \cup {row}
          /\ nextCourseId' = nextCourseId + 1
          /\ last' = Response(req, 200, "", row)
          /\ UNCHANGED <<students, enrollments, nextStudentId, reqs>>

\* GET /courses/
get_courses ==
    /\ Ready
    /\ last' = Response([op |-> "get_courses"], 200, "", courses)
    /\ UNCHANGED <<tables, reqs>>

\* DELETE /courses/{course_id}
delete_course(course_id) ==
    /\ Ready
    /\ LET req == [op |-> "delete_course", course_id |-> course_id] IN
       /\ enrollments' =
              BagRemove(enrollments, delete_course_filter(enrollments, course_id))
       /\ courses' = {c \in courses : c.id # course_id}
       /\ last' = Response(req, 200, "", Message("Course deleted"))
       /\ UNCHANGED <<students, nextStudentId, nextCourseId, reqs>>

\* POST /enrollments/
create_enrollment(student_id, course_id, grade) ==
    /\ Ready
    /\ LET req == [op |-> "create_enrollment", student_id |-> student_id,
                   course_id |-> course_id, grade |-> grade]
           student == create_enrollment_student(students, student_id)
           course == create_enrollment_course(courses, course_id)
           notFound == create_enrollment_not_found(student # {}, course # {})
           existing == create_enrollment_existing(enrollments, student_id, course_id)
           row == EnrollmentRow(student_id, course_id, grade)
       IN IF notFound # ""
          THEN /\ last' = Response(req, 404, notFound, NoData)
               /\ UNCHANGED <<tables, reqs>>
          ELSE IF NonEmpty(existing)
          THEN /\ last' = Response(req, 400,
                                   "Student already enrolled in this course", NoData)
               /\ UNCHANGED <<tables, reqs>>
          ELSE /\ BagSize(enrollments) < MaxRows
               /\ enrollments' = BagInsert(enrollments, row)
               /\ last' = Response(req, 200, "", row)
               /\ UNCHANGED <<students, courses, nextStudentId, nextCourseId, reqs>>

\* GET /enrollments/
get_enrollments(student_id, course_id) ==
    /\ Ready
    /\ LET req == [op |-> "get_enrollments", student_id |-> student_id,
                   course_id |-> course_id]
       IN /\ last' = Response(req, 200, "",
                              get_enrollments_query(enrollments, student_id, course_id))
          /\ UNCHANGED <<tables, reqs>>

\* PUT /enrollments/
update_grade(student_id, course_id, grade) ==
    /\ Ready
    /\ LET req == [op |-> "update_grade", student_id |-> student_id,
                   course_id |-> course_id, grade |-> grade]
           existing == update_grade_filter(enrollments, student_id, course_id)
           hit == update_grade_filter(enrollments, student_id, course_id)
           result == UpdatedRows(enrollments, hit, grade)
       IN IF ~NonEmpty(existing)
          THEN /\ last' = Response(req, 404, "Enrollment not found", NoData)
               /\ UNCHANGED <<tables, reqs>>
          ELSE /\ enrollments' = BagSetGrade(enrollments, hit, grade)
               \* result.data[0]; an update that matched nothing raises IndexError
               /\ last' = IF NonEmpty(result)
                          THEN Response(req, 200, "",
                                        CHOOSE r \in DOMAIN result : TRUE)
                          ELSE Response(req, 500, "IndexError", NoData)
               /\ UNCHANGED <<students, courses, nextStudentId, nextCourseId, reqs>>

\* DELETE /enrollments/
delete_enrollment(student_id, course_id) ==
    /\ Ready
    /\ LET req == [op |-> "delete_enrollment", student_id |-> student_id,
                   course_id |-> course_id]
       IN /\ enrollments' =
                 BagRemove(enrollments,
                           delete_enrollment_filter(enrollments, student_id, course_id))
          /\ last' = Response(req, 200, "", Message("Enrollment deleted"))
          /\ UNCHANGED <<students, courses, nextStudentId, nextCourseId, reqs>>

\* GET /students/{student_id}/gpa
calculate_gpa(student_id) ==
    /\ Ready
    /\ LET req == [op |-> "calculate_gpa", student_id |-> student_id]
           rows == calculate_gpa_rows(enrollments, student_id)
       IN /\ last' = Response(req, 200, "", calculate_gpa_body(rows))
          /\ UNCHANGED <<tables, reqs>>

Next ==
    \/ \E name \in Names, email \in Emails : create_student(name, email)
    \/ get_students
    \/ \E student_id \in StudentIdArgs : delete_student(student_id)
    \/ \E name \in CourseNames, instructor \in Instructors,
          prerequisites \in PrereqLists :
            create_course(name, instructor, prerequisites)
    \/ get_courses
    \/ \E course_id \in CourseIdArgs : delete_course(course_id)
    \/ \E student_id \in StudentIds, course_id \in CourseIds,
          grade \in Grades \cup {NULL} :
            create_enrollment(student_id, course_id, grade)
    \/ \E student_id \in StudentIdArgs \cup {NULL},
          course_id \in CourseIdArgs \cup {NULL} :
            get_enrollments(student_id, course_id)
    \/ \E student_id \in StudentIds, course_id \in CourseIds,
          grade \in Grades :
            update_grade(student_id, course_id, grade)
    \/ \E student_id \in StudentIds, course_id \in CourseIds :
            delete_enrollment(student_id, course_id)
    \/ \E student_id \in StudentIds : calculate_gpa(student_id)
    \/ respond

Spec == Init /\ [][Next]_vars

----------------------------------------------------------------------------
(* SpecSteps and SpecConc: one action per store call.  reqs[p] is the      *)
(* request worker p serves: the request, the store call it is about to     *)
(* make (pc), the result of an earlier select it still holds (found) and,  *)
(* once done, the status of its response.  The handlers that only read     *)
(* (get_students, get_courses, get_enrollments, calculate_gpa) are one     *)
(* store call each and change no table; they are left to Spec.             *)

\* The requests that write, with the first store call of each.
WriteRequests ==
    [op : {"create_student"}, name : Names, email : Emails]
    \cup [op : {"delete_student"}, student_id : StudentIds]
    \cup [op : {"create_course"}, name : CourseNames, instructor : Instructors,
          prerequisites : PrereqLists]
    \cup [op : {"delete_course"}, course_id : CourseIds]
    \cup [op : {"create_enrollment"}, student_id : StudentIds,
          course_id : CourseIds, grade : StepGrades]
    \cup [op : {"update_grade"}, student_id : StudentIds,
          course_id : CourseIds, grade : StepGrades \ {NULL}]
    \cup [op : {"delete_enrollment"}, student_id : StudentIds,
          course_id : CourseIds]

FirstCall(op) ==
    CASE op = "create_student" -> "select_existing"
      [] op = "delete_student" -> "delete_enrollments"
      [] op = "create_course" -> "insert"
      [] op = "delete_course" -> "delete_enrollments"
      [] op = "create_enrollment" -> "select_student"
      [] op = "update_grade" -> "select_existing"
      [] op = "delete_enrollment" -> "delete"

InFlight(op) ==
    Cardinality({p \in Procs : reqs[p].req.op = op /\ reqs[p].pc # "done"})

\* The model's bounds: a create is received only while the store has room.
HasRoom(req) ==
    /\ req.op = "create_student" =>
           nextStudentId + InFlight("create_student") <= MaxStudents
    /\ req.op = "create_course" =>
           nextCourseId + InFlight("create_course") <= MaxCourses
    /\ req.op = "create_enrollment" =>
           BagSize(enrollments) + InFlight("create_enrollment") < MaxRows

At(p, op, pc) == reqs[p].req.op = op /\ reqs[p].pc = pc

Goto(p, pc) == reqs' = [reqs EXCEPT ![p].pc = pc]

Done(p, status) ==
    reqs' = [reqs EXCEPT ![p].pc = "done", ![p].status = status]

\* A worker starts to serve a request.
receive(p, req) ==
    /\ reqs[p].pc = "idle"
    /\ HasRoom(req)
    /\ reqs' = [reqs EXCEPT ![p] =
                   [req |-> req, pc |-> FirstCall(req.op), found |-> FALSE,
                    status |-> 0]]
    /\ UNCHANGED <<tables, last>>

\* The response leaves the server; the worker is free again.
finish(p) ==
    /\ reqs[p].pc = "done"
    /\ reqs' = [reqs EXCEPT ![p] = IdleReq]
    /\ UNCHANGED <<tables, last>>

\* create_student: the duplicate check.
create_student_select(p) ==
    /\ At(p, "create_student", "select_existing")
    /\ LET existing == create_student_existing(students, reqs[p].req.email)
       IN IF existing # {} THEN Done(p, 400) ELSE Goto(p, "insert")
    /\ UNCHANGED <<tables, last>>

\* An insert of create_student into a store with a unique constraint on
\* email: it fails when the email is stored.
create_student_insert_unique(p) ==
    /\ At(p, "create_student", "insert")
    /\ IF \E s \in students : s.email = reqs[p].req.email
       THEN /\ Done(p, 500)
            /\ UNCHANGED <<tables, last>>
       ELSE /\ students' = students \cup
                   {StudentRow(nextStudentId, reqs[p].req.name, reqs[p].req.email)}
            /\ nextStudentId' = nextStudentId + 1
            /\ Done(p, 200)
            /\ UNCHANGED <<courses, enrollments, nextCourseId, last>>

\* create_student: the insert.
create_student_insert(p) ==
    /\ At(p, "create_student", "insert")
    /\ students' = students \cup
           {StudentRow(nextStudentId, reqs[p].req.name, reqs[p].req.email)}
    /\ nextStudentId' = nextStudentId + 1
    /\ Done(p, 200)
    /\ UNCHANGED <<courses, enrollments, nextCourseId, last>>

\* A faulty first store call of delete_student: the student row is deleted
\* in place of the related enrollments.
delete_student_enrollments_row_first(p) ==
    /\ At(p, "delete_student", "delete_enrollments")
    /\ students' = {s \in students : s.id # reqs[p].req.student_id}
    /\ Goto(p, "delete_row")
    /\ UNCHANGED <<courses, enrollments, nextStudentId, nextCourseId, last>>

\* delete_student: delete related enrollments first.
delete_student_enrollments(p) ==
    /\ At(p, "delete_student", "delete_enrollments")
    /\ enrollments' =
           BagRemove(enrollments,
                     delete_student_filter(enrollments, reqs[p].req.student_id))
    /\ Goto(p, "delete_row")
    /\ UNCHANGED <<students, courses, nextStudentId, nextCourseId, last>>

\* delete_student: delete the student.
delete_student_row(p) ==
    /\ At(p, "delete_student", "delete_row")
    /\ students' = {s \in students : s.id # reqs[p].req.student_id}
    /\ Done(p, 200)
    /\ UNCHANGED <<courses, enrollments, nextStudentId, nextCourseId, last>>

\* create_course: the insert.
create_course_insert(p) ==
    /\ At(p, "create_course", "insert")
    /\ courses' = courses \cup
           {CourseRow(nextCourseId, reqs[p].req.name, reqs[p].req.instructor,
                      reqs[p].req.prerequisites)}
    /\ nextCourseId' = nextCourseId + 1
    /\ Done(p, 200)
    /\ UNCHANGED <<students, enrollments, nextStudentId, last>>

\* delete_course: delete related enrollments first.
delete_course_enrollments(p) ==
    /\ At(p, "delete_course", "delete_enrollments")
    /\ enrollments' =
           BagRemove(enrollments,
                     delete_course_filter(enrollments, reqs[p].req.course_id))
    /\ Goto(p, "delete_row")
    /\ UNCHANGED <<students, courses, nextStudentId, nextCourseId, last>>

\* delete_course: delete the course.
delete_course_row(p) ==
    /\ At(p, "delete_course", "delete_row")
    /\ courses' = {c \in courses : c.id # reqs[p].req.course_id}
    /\ Done(p, 200)
    /\ UNCHANGED <<students, enrollments, nextStudentId, nextCourseId, last>>

\* create_enrollment: select the student.
create_enrollment_select_student(p) ==
    /\ At(p, "create_enrollment", "select_student")
    /\ LET student == create_enrollment_student(students, reqs[p].req.student_id)
       IN reqs' = [reqs EXCEPT ![p].pc = "select_course",
                               ![p].found = (student # {})]
    /\ UNCHANGED <<tables, last>>

\* create_enrollment: select the course, then the two existence checks.
create_enrollment_select_course(p) ==
    /\ At(p, "create_enrollment", "select_course")
    /\ LET course == create_enrollment_course(courses, reqs[p].req.course_id)
           notFound == create_enrollment_not_found(reqs[p].found, course # {})
       IN IF notFound # "" THEN Done(p, 404) ELSE Goto(p, "select_existing")
    /\ UNCHANGED <<tables, last>>

\* create_enrollment: the duplicate check.
create_enrollment_select_existing(p) ==
    /\ At(p, "create_enrollment", "select_existing")
    /\ LET existing ==
               create_enrollment_existing(enrollments, reqs[p].req.student_id,
                                          reqs[p].req.course_id)
       IN IF NonEmpty(existing) THEN Done(p, 400) ELSE Goto(p, "insert")
    /\ UNCHANGED <<tables, last>>

\* create_enrollment: the insert.
create_enrollment_insert(p) ==
    /\ At(p, "create_enrollment", "insert")
    /\ enrollments' =
           BagInsert(enrollments,
                     EnrollmentRow(reqs[p].req.student_id, reqs[p].req.course_id,
                                   reqs[p].req.grade))
    /\ Done(p, 200)
    /\ UNCHANGED <<students, courses, nextStudentId, nextCourseId, last>>

\* update_grade: check that the enrollment exists.
update_grade_select(p) ==
    /\ At(p, "update_grade", "select_existing")
    /\ LET existing ==
               update_grade_filter(enrollments, reqs[p].req.student_id,
                                   reqs[p].req.course_id)
       IN IF ~NonEmpty(existing) THEN Done(p, 404) ELSE Goto(p, "update")
    /\ UNCHANGED <<tables, last>>

\* update_grade: the update; result.data[0] of an empty result is an
\* IndexError, an unhandled failure (500).
update_grade_update(p) ==
    /\ At(p, "update_grade", "update")
    /\ LET hit == update_grade_filter(enrollments, reqs[p].req.student_id,
                                      reqs[p].req.course_id)
       IN /\ enrollments' = BagSetGrade(enrollments, hit, reqs[p].req.grade)
          /\ IF NonEmpty(hit) THEN Done(p, 200) ELSE Done(p, 500)
    /\ UNCHANGED <<students, courses, nextStudentId, nextCourseId, last>>

\* delete_enrollment: the delete.
delete_enrollment_delete(p) ==
    /\ At(p, "delete_enrollment", "delete")
    /\ enrollments' =
           BagRemove(enrollments,
                     delete_enrollment_filter(enrollments, reqs[p].req.student_id,
                                              reqs[p].req.course_id))
    /\ Done(p, 200)
    /\ UNCHANGED <<students, courses, nextStudentId, nextCourseId, last>>

\* The next store call of a create request worker p serves.
create_step(p) ==
    \/ create_student_select(p)
    \/ create_student_insert(p)
    \/ create_course_insert(p)
    \/ create_enrollment_select_student(p)
    \/ create_enrollment_select_course(p)
    \/ create_enrollment_select_existing(p)
    \/ create_enrollment_insert(p)
    \/ finish(p)

\* The next store call of an update or delete request worker p serves.
change_step(p) ==
    \/ delete_student_enrollments(p)
    \/ delete_student_row(p)
    \/ delete_course_enrollments(p)
    \/ delete_course_row(p)
    \/ update_grade_select(p)
    \/ update_grade_update(p)
    \/ delete_enrollment_delete(p)

\* Requests one at a time: a request is received when no other is served.
NextSteps ==
    \E p \in Procs :
        \/ \E req \in WriteRequests :
               /\ \A q \in Procs : reqs[q].pc = "idle"
               /\ receive(p, req)
        \/ create_step(p)
        \/ change_step(p)

SpecSteps == Init /\ [][NextSteps]_vars

\* The create requests, which check and then insert.
CreateRequests ==
    {req \in WriteRequests :
        req.op \in {"create_student", "create_course", "create_enrollment"}}

\* Create requests served concurrently, their store calls interleaved.
\* Every behaviour of SpecConc is a behaviour of the service.
NextConc ==
    \E p \in Procs :
        \/ \E req \in CreateRequests : receive(p, req)
        \/ create_step(p)

SpecConc == Init /\ [][NextConc]_vars

----------------------------------------------------------------------------
(* Properties.                                                             *)

Abs(x) == IF x < 0 THEN 0 - x ELSE x

\* The distinct rows of bag B for the pair (student_id, course_id).
PairRows(B, student_id, course_id) ==
    {r \in DOMAIN B : r.student_id = student_id /\ r.course_id = course_id}

\* The number of rows of bag B for the pair (student_id, course_id).
PairCount(B, student_id, course_id) ==
    SumOver(B, PairRows(B, student_id, course_id))

\* The rows of bag B outside the set Hit of rows are the same in bag A.
SameOutside(A, B, Hit) ==
    /\ DOMAIN B \ Hit = DOMAIN A \ Hit
    /\ \A r \in DOMAIN B \ Hit : A[r] = B[r]

\* A step of Spec in which the handler named op serves a request.
Handled(op) == Ready /\ last'.req.op = op

\* C1: requests one at a time, create_student answers 400 and leaves the
\* students table unchanged when a stored student has exactly the given
\* email; otherwise it inserts exactly one new row, with the given email and
\* an id no stored row has, and returns that row.
C1_CreateStudent ==
    [][Handled("create_student") =>
        LET email == last'.req.email
        IN IF \E s \in students : s.email = email
           THEN /\ last'.status = 400
                /\ students' = students
           ELSE /\ last'.status = 200
                /\ last'.data \notin students
                /\ students' = students \cup {last'.data}
                /\ last'.data.email = email
                /\ \A s \in students : s.id # last'.data.id]_vars

\* C1's case: a create_student was refused because its email is stored.
C1_Witness ==
    /\ last.req.op = "create_student"
    /\ last.status = 400
    /\ \E s \in students : s.email = last.req.email

\* C2: requests one at a time, every reachable state has at most one
\* enrollment row per (student_id, course_id) pair, and a create_enrollment
\* for a pair that has a row answers 400 and inserts nothing.
C2_UniqueEnrollment ==
    /\ [](\A r \in DOMAIN enrollments :
              PairCount(enrollments, r.student_id, r.course_id) = 1)
    /\ [][Handled("create_enrollment") =>
            (PairRows(enrollments, last'.req.student_id,
                      last'.req.course_id) # {}
                => /\ last'.status = 400
                   /\ enrollments' = enrollments)]_vars

\* C2's case: a create_enrollment was refused because the pair has a row.
C2_Witness ==
    /\ last.req.op = "create_enrollment"
    /\ last.status = 400
    /\ PairCount(enrollments, last.req.student_id, last.req.course_id) = 1

\* C3 (tables only): after delete_student(id) no enrollment row has
\* student_id = id and no student row has that id, and the enrollments of
\* other students, the other student rows and the course rows are unchanged;
\* symmetrically for delete_course(id).
C3_TablesAfterDelete ==
    [][/\ Handled("delete_student") =>
            LET id == last'.req.student_id
                own == {r \in DOMAIN enrollments : r.student_id = id}
            IN /\ \A r \in DOMAIN enrollments' : r.student_id # id
               /\ SameOutside(enrollments', enrollments, own)
               /\ students' = {s \in students : s.id # id}
               /\ courses' = courses
       /\ Handled("delete_course") =>
            LET id == last'.req.course_id
                own == {r \in DOMAIN enrollments : r.course_id = id}
            IN /\ \A r \in DOMAIN enrollments' : r.course_id # id
               /\ SameOutside(enrollments', enrollments, own)
               /\ courses' = {c \in courses : c.id # id}
               /\ students' = students]_vars

\* C3: as C3_TablesAfterDelete, and get_enrollments(student_id = id) on the
\* tables after delete_student(id) returns the empty list, for every id
\* (get_enrollments(course_id = id) after delete_course(id)).
C3_CascadeDelete ==
    [][/\ Handled("delete_student") =>
            LET id == last'.req.student_id
                own == {r \in DOMAIN enrollments : r.student_id = id}
            IN /\ \A r \in DOMAIN enrollments' : r.student_id # id
               /\ ~NonEmpty(get_enrollments_query(enrollments', id, NULL))
               /\ SameOutside(enrollments', enrollments, own)
               /\ students' = {s \in students : s.id # id}
               /\ courses' = courses
       /\ Handled("delete_course") =>
            LET id == last'.req.course_id
                own == {r \in DOMAIN enrollments : r.course_id = id}
            IN /\ \A r \in DOMAIN enrollments' : r.course_id # id
               /\ ~NonEmpty(get_enrollments_query(enrollments', NULL, id))
               /\ SameOutside(enrollments', enrollments, own)
               /\ courses' = {c \in courses : c.id # id}
               /\ students' = students]_vars

\* C4: create_enrollment answers 404 "Student not found" and leaves the
\* enrollments table unchanged when no student has the student_id, whether
\* or not the course exists; it answers 404 "Course not found" and leaves the
\* table unchanged when the student exists and no course has the course_id;
\* both come before the duplicate check (400).
C4_NotFoundFirst ==
    [][Handled("create_enrollment") =>
        IF \A s \in students : s.id # last'.req.student_id
        THEN /\ last'.status = 404
             /\ last'.detail = "Student not found"
             /\ enrollments' = enrollments
        ELSE IF \A c \in courses : c.id # last'.req.course_id
        THEN /\ last'.status = 404
             /\ last'.detail = "Course not found"
             /\ enrollments' = enrollments
        ELSE last'.status # 404]_vars

\* C4's case: student-not-found was answered for a course that exists.
C4_Witness ==
    /\ last.req.op = "create_enrollment"
    /\ last.status = 404
    /\ last.detail = "Student not found"
    /\ \E c \in courses : c.id = last.req.course_id

\* C5: get_enrollments returns exactly the stored rows that match every
\* supplied key (a key is supplied when it is not None; 0 is a supplied
\* value), all rows when none is supplied, and changes no table.
C5_ListFilters ==
    [][Handled("get_enrollments") =>
        LET student_id == last'.req.student_id
            course_id == last'.req.course_id
            match == {r \in DOMAIN enrollments :
                        /\ student_id # NULL => r.student_id = student_id
                        /\ course_id # NULL => r.course_id = course_id}
        IN /\ last'.data = [r \in match |-> enrollments[r]]
           /\ UNCHANGED tables]_vars

\* C6: calculate_gpa answers with the mean of the student's non-null grades
\* to the nearest hundredth (gpa, in hundredths, is within half a hundredth
\* of 100 * total / (8 * n), the grades being eighths), and with gpa 0 and
\* the message "No grades found" when the student has no non-null grade.
C6_Gpa ==
    last.req.op = "calculate_gpa" =>
        LET student_id == last.req.student_id
            graded == {r \in DOMAIN enrollments :
                         r.student_id = student_id /\ r.grade # NULL}
            n == SumOver(enrollments, graded)
            total == SumOver([r \in graded |-> r.grade * enrollments[r]], graded)
        IN /\ last.status = 200
           /\ IF n = 0
              THEN last.data = [gpa |-> 0, message |-> "No grades found"]
              ELSE /\ last.data.message = ""
                   /\ 2 * Abs(8 * n * last.data.gpa - 100 * total) <= 8 * n

\* C6's case: a GPA (3.125 gives 3.12) over a student who has a graded and
\* a null-grade enrollment, while another student has a graded one.
C6_Witness ==
    /\ last.req.op = "calculate_gpa"
    /\ last.data = [gpa |-> 312, message |-> ""]
    /\ \E r \in DOMAIN enrollments :
           r.student_id = last.req.student_id /\ r.grade = NULL
    /\ \E r \in DOMAIN enrollments :
           r.student_id # last.req.student_id /\ r.grade # NULL

\* C7: requests one at a time, update_grade answers 404 and changes nothing
\* when the pair has no enrollment; otherwise the pair's row gets the given
\* grade, every other row of every table is unchanged, the row is returned
\* with the given grade, and calculate_gpa on the new tables is the mean of
\* the given grade and the student's other non-null grades.
C7_UpdateGrade ==
    [][Handled("update_grade") =>
        LET student_id == last'.req.student_id
            course_id == last'.req.course_id
            grade == last'.req.grade
            own == PairRows(enrollments, student_id, course_id)
            row == EnrollmentRow(student_id, course_id, grade)
            others == {r \in DOMAIN enrollments :
                         /\ r.student_id = student_id
                         /\ r.course_id # course_id
                         /\ r.grade # NULL}
            n == SumOver(enrollments, others) + 1
            total == SumOver([r \in others |-> r.grade * enrollments[r]], others)
                     + grade
            gpa == calculate_gpa_body(calculate_gpa_rows(enrollments', student_id))
        IN IF own = {}
           THEN /\ last'.status = 404
                /\ UNCHANGED tables
           ELSE /\ last'.status = 200
                /\ last'.data = row
                /\ PairRows(enrollments', student_id, course_id) = {row}
                /\ enrollments'[row] = 1
                /\ SameOutside(enrollments', enrollments, own \cup {row})
                /\ UNCHANGED <<students, courses, nextStudentId, nextCourseId>>
                /\ gpa.message = ""
                /\ 2 * Abs(8 * n * gpa.gpa - 100 * total) <= 8 * n]_vars

\* C7's case: a grade was updated for a student who has another graded
\* enrollment with a different grade.
C7_Witness ==
    /\ last.req.op = "update_grade"
    /\ last.status = 200
    /\ \E r \in DOMAIN enrollments :
           /\ r.student_id = last.req.student_id
           /\ r.course_id # last.req.course_id
           /\ r.grade \notin {NULL, last.req.grade}

\* C8: delete_student, delete_course and delete_enrollment always answer 200
\* with their confirmation message; when no row matches the id or pair they
\* change no table; and the same delete applied again to the resulting
\* tables changes nothing.
C8_DeleteIdempotent ==
    [][/\ Handled("delete_student") =>
            LET id == last'.req.student_id
            IN /\ last'.status = 200
               /\ last'.data = Message("Student deleted")
               /\ (\A s \in students : s.id # id) => UNCHANGED tables
               /\ BagRemove(enrollments', delete_student_filter(enrollments', id))
                      = enrollments'
               /\ {s \in students' : s.id # id} = students'
       /\ Handled("delete_course") =>
            LET id == last'.req.course_id
            IN /\ last'.status = 200
               /\ last'.data = Message("Course deleted")
               /\ (\A c \in courses : c.id # id) => UNCHANGED tables
               /\ BagRemove(enrollments', delete_course_filter(enrollments', id))
                      = enrollments'
               /\ {c \in courses' : c.id # id} = courses'
       /\ Handled("delete_enrollment") =>
            LET student_id == last'.req.student_id
                course_id == last'.req.course_id
            IN /\ last'.status = 200
               /\ last'.data = Message("Enrollment deleted")
               /\ PairRows(enrollments, student_id, course_id) = {}
                      => UNCHANGED tables
               /\ BagRemove(enrollments',
                            delete_enrollment_filter(enrollments', student_id,
                                                     course_id))
                      = enrollments'
               /\ UNCHANGED <<students, courses>>]_vars

\* C8's case: a delete_student for an id the store never assigned was
\* confirmed, with students and enrollments stored.
C8_Witness ==
    /\ last.req.op = "delete_student"
    /\ last.status = 200
    /\ last.req.student_id >= nextStudentId
    /\ students # {}
    /\ NonEmpty(enrollments)

\* C9: with the store calls of concurrent create requests interleaved and
\* no unique constraint in the store, an insert is not checked again: a
\* create_student (create_enrollment) that passed its duplicate check
\* inserts its row and answers 200 whatever was inserted since, so two
\* requests that both passed the check leave two rows with one email (two
\* rows for one pair).
C9_CheckThenInsertRace ==
    [][\A p \in Procs :
        /\ (At(p, "create_student", "insert") /\ reqs'[p] # reqs[p]) =>
              LET email == reqs[p].req.email
              IN /\ reqs'[p].status = 200
                 /\ Cardinality({s \in students' : s.email = email})
                      = Cardinality({s \in students : s.email = email}) + 1
        /\ (At(p, "create_enrollment", "insert") /\ reqs'[p] # reqs[p]) =>
              LET student_id == reqs[p].req.student_id
                  course_id == reqs[p].req.course_id
              IN /\ reqs'[p].status = 200
                 /\ PairCount(enrollments', student_id, course_id)
                      = PairCount(enrollments, student_id, course_id) + 1]_vars

\* C9's case: two create_enrollment requests for one pair have both
\* answered 200 and the pair has two rows, in a store where two
\* create_student requests left two students with one email.
C9_Witness ==
    /\ \A p \in Procs :
           /\ reqs[p].req.op = "create_enrollment"
           /\ reqs[p].pc = "done"
           /\ reqs[p].status = 200
    /\ reqs[1].req.student_id = reqs[2].req.student_id
    /\ reqs[1].req.course_id = reqs[2].req.course_id
    /\ PairCount(enrollments, reqs[1].req.student_id, reqs[1].req.course_id) = 2
    /\ \E s, t \in students : s.id # t.id /\ s.email = t.email

\* C10: requests one at a time, in every state, the states between two
\* store calls of a handler included, every enrollment row's student_id is
\* the id of a student row and its course_id the id of a course row.
C10_ReferentialIntegrity ==
    \A r \in DOMAIN enrollments :
        /\ \E s \in students : s.id = r.student_id
        /\ \E c \in courses : c.id = r.course_id

\* C10's case: between the two store calls of a delete_student, the student
\* row still stored, with enrollments of other students in the table.
C10_Witness ==
    \E p \in Procs :
        /\ At(p, "delete_student", "delete_row")
        /\ \E s \in students : s.id = reqs[p].req.student_id
        /\ NonEmpty(enrollments)

====
